---- MODULE Spec2Model ----
(***************************************************************************)
(* Model of src/main.py: an in-memory people store (the module globals     *)
(* _people and _free_ids) behind five request handlers.                    *)
(*                                                                         *)
(* Strings are sequences of one-character strings, so that strip(),        *)
(* isalpha() and lower() are computed character by character.  Python's    *)
(* None is the one-element sequence None below, which no string equals.    *)
(***************************************************************************)
EXTENDS Integers, Sequences, FiniteSets

VARIABLES people, free_ids, last, nsteps, threads

vars == <<people, free_ids, last, nsteps, threads>>

-----------------------------------------------------------------------------
(* Bounds of the model *)

\* number of requests that change the store in one behaviour (of create
\* requests received, when they are served concurrently)
MaxSteps == 4

\* stores handed to get_next_id on its own: at most this many records, with
\* ids and free ids up to MaxStoreId
MaxStoreLen == 3

MaxStoreId == 3

-----------------------------------------------------------------------------
(* Values *)

None == <<"None">>

\* Python truthiness of a str | None argument or field
Truthy(v) == v # None /\ v # <<>>

UpperLetters ==
    <<"A", "B", "C", "D", "E", "F", "G", "H", "I", "J", "K", "L", "M",
      "N", "O", "P", "Q", "R", "S", "T", "U", "V", "W", "X", "Y", "Z">>

LowerLetters ==
    <<"a", "b", "c", "d", "e", "f", "g", "h", "i", "j", "k", "l", "m",
      "n", "o", "p", "q", "r", "s", "t", "u", "v", "w", "x", "y", "z">>

Range(f) == {f[i] : i \in DOMAIN f}

Letters == Range(UpperLetters) \cup Range(LowerLetters)

\* str.lower() on one character
LowerChar(c) ==
    IF c \in Range(UpperLetters)
    THEN LowerLetters[CHOOSE i \in DOMAIN UpperLetters : UpperLetters[i] = c]
    ELSE c

\* str.lower()
lower(s) == [i \in 1..Len(s) |-> LowerChar(s[i])]

RECURSIVE lstrip(_)
lstrip(s) == IF s # <<>> /\ Head(s) = " " THEN lstrip(Tail(s)) ELSE s

RECURSIVE rstrip(_)
rstrip(s) ==
    IF s # <<>> /\ s[Len(s)] = " " THEN rstrip(SubSeq(s, 1, Len(s) - 1)) ELSE s

\* str.strip()
strip(s) == rstrip(lstrip(s))

\* str.isalpha(): non-empty and every character a letter
isalpha(s) == s # <<>> /\ \A i \in 1..Len(s) : s[i] \in Letters
-----------------------------------------------------------------------------
(* Field validation *)

\* faulty variant: the stripped name is accepted without the isalpha test
validate_name_unchecked(name) ==
    [ok |-> TRUE, value |-> strip(name), status |-> 200]

\* validate_name: strip, then reject with HTTPException(422) unless isalpha
validate_name(name) ==
    LET stripped == strip(name)
    IN  IF ~isalpha(stripped)
        THEN [ok |-> FALSE, value |-> name, status |-> 422]
        ELSE [ok |-> TRUE, value |-> stripped, status |-> 200]

RECURSIVE count(_, _)
\* str.count of one character
count(s, c) ==
    IF s = <<>> THEN 0
    ELSE (IF Head(s) = c THEN 1 ELSE 0) + count(Tail(s), c)

\* index of the first occurrence of c in s (c occurs in s)
index(s, c) == CHOOSE i \in 1..Len(s) : s[i] = c /\ \A j \in 1..(i - 1) : s[j] # c

\* EmailStr: one "@", a non-empty local part, a dotted domain with non-empty
\* first and last labels; the result has the domain in lower case.  A
\* rejected value raises pydantic's ValidationError, which no handler turns
\* into an HTTPException: the request ends with status 500.
validate_email(email) ==
    IF email = None THEN [ok |-> TRUE, value |-> None, status |-> 200]
    ELSE IF count(email, "@") # 1 THEN [ok |-> FALSE, value |-> email, status |-> 500]
    ELSE LET at == index(email, "@")
             local == SubSeq(email, 1, at - 1)
             domain == SubSeq(email, at + 1, Len(email))
         IN  IF /\ local # <<>>
                /\ count(domain, ".") >= 1
                /\ domain[1] # "."
                /\ domain[Len(domain)] # "."
                /\ count(email, " ") = 0
             THEN [ok |-> TRUE, value |-> local \o <<"@">> \o lower(domain), status |-> 200]
             ELSE [ok |-> FALSE, value |-> email, status |-> 500]

\* the validator pydantic runs for a field of Person
validate_field(field, value) ==
    CASE field \in {"firstname", "lastname"} -> validate_name(value)
      [] field = "email" -> validate_email(value)
      [] OTHER -> [ok |-> TRUE, value |-> value, status |-> 200]

\* Person(...): the fields are validated in declaration order and the first
\* rejection ends the construction
Person(id, firstname, lastname, email, favorite_anime) ==
    LET fn == validate_name(firstname)
        ln == validate_name(lastname)
        em == validate_email(email)
    IN  IF ~fn.ok THEN [ok |-> FALSE, status |-> fn.status, value |-> None]
        ELSE IF ~ln.ok THEN [ok |-> FALSE, status |-> ln.status, value |-> None]
        ELSE IF ~em.ok THEN [ok |-> FALSE, status |-> em.status, value |-> None]
        ELSE [ok |-> TRUE, status |-> 201,
              value |-> [id |-> id, firstname |-> fn.value, lastname |-> ln.value,
                         email |-> em.value, favorite_anime |-> favorite_anime]]

\* person.<field> = value under validate_assignment, on the running result r
\* of the handler: nothing more is assigned once an assignment has raised
setattr(r, field, value) ==
    IF r.status # 200 THEN r
    ELSE LET v == validate_field(field, value)
         IN  IF v.ok
             THEN [person |-> [r.person EXCEPT ![field] = v.value], status |-> 200]
             ELSE [person |-> r.person, status |-> v.status]

-----------------------------------------------------------------------------
(* The store *)

\* _people as constructed at import
SeedPeople ==
    << [id |-> 0, firstname |-> <<"J", "o", "h", "n">>, lastname |-> <<"D", "o", "e">>,
        email |-> <<"m", "a", "t", "t", "@", "a", "r", "e", "s", "a", "y", "o", "o",
                    ".", "c", "o", "m">>,
        favorite_anime |-> None],
       [id |-> 1, firstname |-> <<"M", "a", "t", "t">>, lastname |-> <<"A">>,
        email |-> None, favorite_anime |-> None],
       [id |-> 2, firstname |-> <<"J", "o", "e">>, lastname |-> <<"B", "l", "o", "w">>,
        email |-> None, favorite_anime |-> None] >>

RECURSIVE MinOf(_)
\* min() of a non-empty set of integers, by one pass over its elements
MinOf(S) ==
    LET x == CHOOSE y \in S : TRUE
    IN  IF S = {x} THEN x
        ELSE LET m == MinOf(S \ {x}) IN IF x < m THEN x ELSE m

RECURSIVE MaxId(_)
\* max(person.id for person in ps), ps non-empty
MaxId(ps) ==
    IF Len(ps) = 1 THEN ps[1].id
    ELSE LET m == MaxId(Tail(ps)) IN IF ps[1].id > m THEN ps[1].id ELSE m

RECURSIVE MaxOf(_)
\* max() of a non-empty set of integers
MaxOf(S) ==
    LET x == CHOOSE y \in S : TRUE
    IN  IF S = {x} THEN x
        ELSE LET m == MaxOf(S \ {x}) IN IF x > m THEN x ELSE m

\* faulty variant: the largest id present is handed out again
get_next_id_off_by_one(ps, free) ==
    IF free # {} THEN MinOf(free)
    ELSE IF ps # <<>> THEN MaxId(ps)
    ELSE 0

\* faulty variant: the free ids are never reused
get_next_id_no_reuse(ps, free) ==
    IF ps # <<>> THEN MaxId(ps) + 1
    ELSE 0

\* faulty variant: the largest free id is reused first
get_next_id_largest_free(ps, free) ==
    IF free # {} THEN MaxOf(free)
    ELSE IF ps # <<>> THEN MaxId(ps) + 1
    ELSE 0

get_next_id(ps, free) ==
    IF free # {} THEN MinOf(free)
    ELSE IF ps # <<>> THEN MaxId(ps) + 1
    ELSE 0

\* position of the first record the loop "for person in _people" finds with
\* this id, 0 when the loop ends without finding one
find(ps, person_id) ==
    IF \E i \in 1..Len(ps) : ps[i].id = person_id
    THEN CHOOSE i \in 1..Len(ps) :
            ps[i].id = person_id /\ \A j \in 1..(i - 1) : ps[j].id # person_id
    ELSE 0

\* faulty variant: the last element is dropped (a pop) whatever x is
remove_last_element(ps, x) == SubSeq(ps, 1, Len(ps) - 1)

\* faulty variant: every element equal to x is dropped
remove_every_equal(ps, x) ==
    LET idx == {i \in 1..Len(ps) : ps[i] # x}
    IN  [j \in 1..Cardinality(idx) |->
            ps[CHOOSE i \in idx : Cardinality({k \in idx : k <= i}) = j]]

\* list.remove(x): drops the first element equal to x
remove(ps, x) ==
    LET k == CHOOSE i \in 1..Len(ps) : ps[i] = x /\ \A j \in 1..(i - 1) : ps[j] # x
    IN  SubSeq(ps, 1, k - 1) \o SubSeq(ps, k + 1, Len(ps))

RECURSIVE select(_, _)
\* the elements of ps whose flag in keep is set, in the order of ps
select(ps, keep) ==
    IF ps = <<>> THEN <<>>
    ELSE (IF Head(keep) THEN <<Head(ps)>> ELSE <<>>) \o select(Tail(ps), Tail(keep))

\* faulty variant: only has_email = True is honoured, False keeps everybody
get_people_email_true_only(ps, favorite_anime, has_email, has_favorite_anime) ==
    LET p1 == IF Truthy(favorite_anime)
              THEN select(ps, [i \in 1..Len(ps) |->
                                 /\ Truthy(ps[i].favorite_anime)
                                 /\ lower(favorite_anime) = lower(ps[i].favorite_anime)])
              ELSE ps
        p2 == IF has_email = "True"
              THEN select(p1, [i \in 1..Len(p1) |-> Truthy(p1[i].email)])
              ELSE p1
        p3 == IF has_favorite_anime = "True"
              THEN select(p2, [i \in 1..Len(p2) |-> Truthy(p2[i].favorite_anime)])
              ELSE IF has_favorite_anime = "False"
              THEN select(p2, [i \in 1..Len(p2) |-> ~Truthy(p2[i].favorite_anime)])
              ELSE p2
    IN  p3

\* faulty variant: the has_favorite_anime filter restarts from the whole
\* collection instead of narrowing what the earlier filters kept
get_people_filter_restarts(ps, favorite_anime, has_email, has_favorite_anime) ==
    LET p1 == IF Truthy(favorite_anime)
              THEN select(ps, [i \in 1..Len(ps) |->
                                 /\ Truthy(ps[i].favorite_anime)
                                 /\ lower(favorite_anime) = lower(ps[i].favorite_anime)])
              ELSE ps
        p2 == IF has_email = "True"
              THEN select(p1, [i \in 1..Len(p1) |-> Truthy(p1[i].email)])
              ELSE IF has_email = "False"
              THEN select(p1, [i \in 1..Len(p1) |-> ~Truthy(p1[i].email)])
              ELSE p1
        p3 == IF has_favorite_anime = "True"
              THEN select(ps, [i \in 1..Len(ps) |-> Truthy(ps[i].favorite_anime)])
              ELSE IF has_favorite_anime = "False"
              THEN select(ps, [i \in 1..Len(ps) |-> ~Truthy(ps[i].favorite_anime)])
              ELSE p2
    IN  p3

\* faulty variant: the favorite_anime comparison keeps the letter case
get_people_case_sensitive(ps, favorite_anime, has_email, has_favorite_anime) ==
    LET p1 == IF Truthy(favorite_anime)
              THEN select(ps, [i \in 1..Len(ps) |->
                                 /\ Truthy(ps[i].favorite_anime)
                                 /\ favorite_anime = ps[i].favorite_anime])
              ELSE ps
        p2 == IF has_email = "True"
              THEN select(p1, [i \in 1..Len(p1) |-> Truthy(p1[i].email)])
              ELSE IF has_email = "False"
              THEN select(p1, [i \in 1..Len(p1) |-> ~Truthy(p1[i].email)])
              ELSE p1
        p3 == IF has_favorite_anime = "True"
              THEN select(p2, [i \in 1..Len(p2) |-> Truthy(p2[i].favorite_anime)])
              ELSE IF has_favorite_anime = "False"
              THEN select(p2, [i \in 1..Len(p2) |-> ~Truthy(p2[i].favorite_anime)])
              ELSE p2
    IN  p3

\* get_people: has_email and has_favorite_anime are "True", "False" or "None"
\* (bool | None); each comprehension keeps the records its condition holds of
get_people(ps, favorite_anime, has_email, has_favorite_anime) ==
    LET p1 == IF Truthy(favorite_anime)
              THEN select(ps, [i \in 1..Len(ps) |->
                                 /\ Truthy(ps[i].favorite_anime)
                                 /\ lower(favorite_anime) = lower(ps[i].favorite_anime)])
              ELSE ps
        p2 == IF has_email = "True"
              THEN select(p1, [i \in 1..Len(p1) |-> Truthy(p1[i].email)])
              ELSE IF has_email = "False"
              THEN select(p1, [i \in 1..Len(p1) |-> ~Truthy(p1[i].email)])
              ELSE p1
        p3 == IF has_favorite_anime = "True"
              THEN select(p2, [i \in 1..Len(p2) |-> Truthy(p2[i].favorite_anime)])
              ELSE IF has_favorite_anime = "False"
              THEN select(p2, [i \in 1..Len(p2) |-> ~Truthy(p2[i].favorite_anime)])
              ELSE p2
    IN  p3

\* get_person: the record found, or the 404
get_person(ps, person_id) ==
    LET k == find(ps, person_id)
    IN  IF k = 0 THEN [status |-> 404, value |-> None]
        ELSE [status |-> 200, value |-> ps[k]]
-----------------------------------------------------------------------------
(* Request inputs *)

\* person_id path parameters: the seed ids, the next two fresh ids
IdInputs == 0..(Len(SeedPeople) + 1)

Args(firstname, lastname, email, favorite_anime) ==
    [firstname |-> firstname, lastname |-> lastname, email |-> email,
     favorite_anime |-> favorite_anime]

\* query strings of POST /api/v1/people: firstname and lastname are required
CreateInputs ==
    { Args(<<"A", "l">>, <<"A", "l">>, None, None),
      Args(<<" ", "A", "l", " ">>, <<"A", "l">>, <<"a", "@", "B", ".", "c">>, <<"n", "a">>),
      Args(<<"J", "0">>, <<"A", "l">>, None, None),
      Args(<<>>, <<"A", "l">>, None, <<"n", "a">>),
      Args(<<"A", "l">>, <<" ">>, None, None),
      Args(<<"A", "l">>, <<"A", "l">>, <<"a", "B">>, None) }

\* query strings of PUT /api/v1/people/{person_id}: any field may be absent
UpdateInputs ==
    { Args(None, None, None, None),
      Args(None, None, None, <<"N", "a">>),
      Args(<<>>, None, <<>>, <<"N", "a">>),
      Args(None, <<>>, None, <<>>),
      Args(<<" ", "A", "l", " ">>, <<"J", "0">>, None, None),
      Args(<<"J", "0">>, <<"A", "l">>, None, <<"N", "a">>),
      Args(None, <<"A", "l">>, <<"a", "B">>, <<"N", "a">>),
      Args(None, None, <<"a", "@", "B", ".", "c">>, None),
      Args(<<"A", "l">>, <<"A", "l">>, <<"a", "@", "B", ".", "c">>, <<"N", "a">>) }

\* query strings of GET /api/v1/people
ListInputs ==
    [favorite_anime : {None, <<"N", "a">>}, has_email : {"None", "True", "False"},
     has_favorite_anime : {"None", "True", "False"}]

NoArgs == Args(None, None, None, None)

-----------------------------------------------------------------------------
(* The handlers, one request served at a time.  last is the response of    *)
(* the request being served: its operation and arguments, its status code  *)
(* and the records of its body.  Respond hands it to the client.           *)

NoResponse ==
    [op |-> "none", person_id |-> -1, args |-> NoArgs, status |-> 200, body |-> <<>>]

Init ==
    /\ people = SeedPeople
    /\ free_ids = {}
    /\ last = NoResponse
    /\ nsteps = 0
    /\ threads = <<>>

\* the count of requests that changed the store
Counted(ps, free) == IF ps # people \/ free # free_ids THEN nsteps + 1 ELSE nsteps

\* faulty variant: the new record is inserted at the front
create_person_at_front(firstname, lastname, email, favorite_anime) ==
    /\ last.op = "none"
    /\ nsteps < MaxSteps
    /\ LET new_person == Person(get_next_id(people, free_ids), firstname, lastname,
                                email, favorite_anime)
           args == Args(firstname, lastname, email, favorite_anime)
       IN  IF new_person.ok
           THEN /\ people' = <<new_person.value>> \o people
                /\ last' = [op |-> "create", person_id |-> -1, args |-> args,
                            status |-> 201, body |-> <<new_person.value>>]
           ELSE /\ people' = people
                /\ last' = [op |-> "create", person_id |-> -1, args |-> args,
                            status |-> new_person.status, body |-> <<>>]
    /\ free_ids' = free_ids
    /\ nsteps' = Counted(people', free_ids')
    /\ UNCHANGED threads

\* POST /api/v1/people
create_person(firstname, lastname, email, favorite_anime) ==
    /\ last.op = "none"
    /\ nsteps < MaxSteps
    /\ LET new_person == Person(get_next_id(people, free_ids), firstname, lastname,
                                email, favorite_anime)
           args == Args(firstname, lastname, email, favorite_anime)
       IN  IF new_person.ok
           THEN /\ people' = Append(people, new_person.value)
                /\ last' = [op |-> "create", person_id |-> -1, args |-> args,
                            status |-> 201, body |-> <<new_person.value>>]
           ELSE /\ people' = people
                /\ last' = [op |-> "create", person_id |-> -1, args |-> args,
                            status |-> new_person.status, body |-> <<>>]
    /\ free_ids' = free_ids
    /\ nsteps' = Counted(people', free_ids')
    /\ UNCHANGED threads

\* faulty variant: a field is assigned whenever it is not None, the empty
\* string included
update_fields_not_none(person, firstname, lastname, email, favorite_anime) ==
    LET r0 == [person |-> person, status |-> 200]
        r1 == IF Truthy(firstname) THEN setattr(r0, "firstname", firstname) ELSE r0
        r2 == IF Truthy(lastname) THEN setattr(r1, "lastname", lastname) ELSE r1
        r3 == IF Truthy(email) THEN setattr(r2, "email", email) ELSE r2
        r4 == IF favorite_anime # None
              THEN setattr(r3, "favorite_anime", favorite_anime) ELSE r3
    IN  r4

\* the body of update_person's loop for the record found
update_fields(person, firstname, lastname, email, favorite_anime) ==
    LET r0 == [person |-> person, status |-> 200]
        r1 == IF Truthy(firstname) THEN setattr(r0, "firstname", firstname) ELSE r0
        r2 == IF Truthy(lastname) THEN setattr(r1, "lastname", lastname) ELSE r1
        r3 == IF Truthy(email) THEN setattr(r2, "email", email) ELSE r2
        r4 == IF Truthy(favorite_anime)
              THEN setattr(r3, "favorite_anime", favorite_anime) ELSE r3
    IN  r4

\* faulty variant: the loop does not stop at the first match, every record
\* with the id is assigned
update_person_every_match(person_id, firstname, lastname, email, favorite_anime) ==
    /\ last.op = "none"
    /\ nsteps < MaxSteps
    /\ LET k == find(people, person_id)
           args == Args(firstname, lastname, email, favorite_anime)
       IN  IF k = 0
           THEN /\ people' = people
                /\ last' = [op |-> "update", person_id |-> person_id, args |-> args,
                            status |-> 404, body |-> <<>>]
           ELSE LET r == update_fields(people[k], firstname, lastname, email,
                                       favorite_anime)
                IN  /\ people' = [i \in 1..Len(people) |->
                                    IF people[i].id = person_id
                                    THEN update_fields(people[i], firstname, lastname,
                                                       email, favorite_anime).person
                                    ELSE people[i]]
                    /\ last' = [op |-> "update", person_id |-> person_id, args |-> args,
                                status |-> r.status,
                                body |-> IF r.status = 200 THEN <<r.person>> ELSE <<>>]
    /\ free_ids' = free_ids
    /\ nsteps' = Counted(people', free_ids')
    /\ UNCHANGED threads

\* PUT /api/v1/people/{person_id}
update_person(person_id, firstname, lastname, email, favorite_anime) ==
    /\ last.op = "none"
    /\ nsteps < MaxSteps
    /\ LET k == find(people, person_id)
           args == Args(firstname, lastname, email, favorite_anime)
       IN  IF k = 0
           THEN /\ people' = people
                /\ last' = [op |-> "update", person_id |-> person_id, args |-> args,
                            status |-> 404, body |-> <<>>]
           ELSE LET r == update_fields(people[k], firstname, lastname, email,
                                       favorite_anime)
                IN  /\ people' = [people EXCEPT ![k] = r.person]
                    /\ last' = [op |-> "update", person_id |-> person_id, args |-> args,
                                status |-> r.status,
                                body |-> IF r.status = 200 THEN <<r.person>> ELSE <<>>]
    /\ free_ids' = free_ids
    /\ nsteps' = Counted(people', free_ids')
    /\ UNCHANGED threads

\* faulty variant: the id is put in the free set before the record is looked
\* for, so an unknown id is freed too
delete_person_frees_first(person_id) ==
    /\ last.op = "none"
    /\ nsteps < MaxSteps
    /\ LET k == find(people, person_id)
       IN  IF k = 0
           THEN /\ people' = people
                /\ last' = [op |-> "delete", person_id |-> person_id, args |-> NoArgs,
                            status |-> 404, body |-> <<>>]
           ELSE /\ people' = remove(people, people[k])
                /\ last' = [op |-> "delete", person_id |-> person_id, args |-> NoArgs,
                            status |-> 200, body |-> <<people[k]>>]
    /\ free_ids' = free_ids \cup {person_id}
    /\ nsteps' = Counted(people', free_ids')
    /\ UNCHANGED threads

\* DELETE /api/v1/people/{person_id}
delete_person(person_id) ==
    /\ last.op = "none"
    /\ nsteps < MaxSteps
    /\ LET k == find(people, person_id)
       IN  IF k = 0
           THEN /\ UNCHANGED <<people, free_ids>>
                /\ last' = [op |-> "delete", person_id |-> person_id, args |-> NoArgs,
                            status |-> 404, body |-> <<>>]
           ELSE /\ people' = remove(people, people[k])
                /\ free_ids' = free_ids \cup {people[k].id}
                /\ last' = [op |-> "delete", person_id |-> person_id, args |-> NoArgs,
                            status |-> 200, body |-> <<people[k]>>]
    /\ nsteps' = Counted(people', free_ids')
    /\ UNCHANGED threads

\* GET /api/v1/people/{person_id}
GetPerson(person_id) ==
    /\ last.op = "none"
    /\ LET r == get_person(people, person_id)
       IN  last' = [op |-> "get", person_id |-> person_id, args |-> NoArgs,
                    status |-> r.status,
                    body |-> IF r.status = 200 THEN <<r.value>> ELSE <<>>]
    /\ UNCHANGED <<people, free_ids, nsteps, threads>>

\* GET /api/v1/people
GetPeople(favorite_anime, has_email, has_favorite_anime) ==
    /\ last.op = "none"
    /\ last' = [op |-> "list", person_id |-> -1,
                args |-> [favorite_anime |-> favorite_anime, has_email |-> has_email,
                          has_favorite_anime |-> has_favorite_anime],
                status |-> 200,
                body |-> get_people(people, favorite_anime, has_email,
                                    has_favorite_anime)]
    /\ UNCHANGED <<people, free_ids, nsteps, threads>>

\* the response leaves the server; the next request can be served
Respond ==
    /\ last.op # "none"
    /\ last' = NoResponse
    /\ UNCHANGED <<people, free_ids, nsteps, threads>>

Create == \E a \in CreateInputs :
            create_person(a.firstname, a.lastname, a.email, a.favorite_anime)

Update == \E person_id \in IdInputs, a \in UpdateInputs :
            update_person(person_id, a.firstname, a.lastname, a.email, a.favorite_anime)

Delete == \E person_id \in IdInputs : delete_person(person_id)

Get == \E person_id \in IdInputs : GetPerson(person_id)

List == \E a \in ListInputs : GetPeople(a.favorite_anime, a.has_email, a.has_favorite_anime)

Next == Create \/ Update \/ Delete \/ Get \/ List \/ Respond

Spec == Init /\ [][Next]_vars
-----------------------------------------------------------------------------
(* get_next_id on its own, over every small store *)

\* a record with this id
Drawn(id) ==
    [id |-> id, firstname |-> <<"A", "l">>, lastname |-> <<"A", "l">>, email |-> None,
     favorite_anime |-> None]

InitAlloc ==
    /\ \E n \in 0..MaxStoreLen :
          \E ids \in [1..n -> 0..MaxStoreId] : people = [i \in 1..n |-> Drawn(ids[i])]
    /\ free_ids \in SUBSET (0..MaxStoreId)
    /\ last = NoResponse
    /\ nsteps = 0
    /\ threads = <<>>

\* a call of get_next_id(); person_id holds what it returns
Allocate ==
    /\ last.op = "none"
    /\ last' = [op |-> "get_next_id", person_id |-> get_next_id(people, free_ids),
                args |-> NoArgs, status |-> 200, body |-> <<>>]
    /\ UNCHANGED <<people, free_ids, nsteps, threads>>

NextAlloc == Allocate \/ Respond

SpecAlloc == InitAlloc /\ [][NextAlloc]_vars

\* ---------------------------------------------------------------------------
\* SpecList: get_people over stores drawn from the records the endpoints can
\* store: email is None or an address EmailStr accepted, favorite_anime is
\* None or any string (the empty one included), ids as an empty free set
\* hands them out.
\* ---------------------------------------------------------------------------
StoredEmails == {None, SeedPeople[1].email}

StoredAnimes == {None, <<>>, <<"n", "a">>, <<"N", "a">>, <<"o">>}

Listed(id, email, favorite_anime) ==
    [id |-> id, firstname |-> <<"A", "l">>, lastname |-> <<"A", "l">>,
     email |-> email, favorite_anime |-> favorite_anime]

\* the query strings of GET /api/v1/people: each filter absent or given
ListQueries ==
    [favorite_anime : {None, <<>>, <<"N", "a">>, <<"O">>},
     has_email : {"None", "True", "False"},
     has_favorite_anime : {"None", "True", "False"}]

InitList ==
    /\ \E n \in 0..MaxStoreLen :
          \E es \in [1..n -> StoredEmails] :
             \E fs \in [1..n -> StoredAnimes] :
                people = [i \in 1..n |-> Listed(i - 1, es[i], fs[i])]
    /\ free_ids = {}
    /\ last = NoResponse
    /\ nsteps = 0
    /\ threads = <<>>

Query == \E a \in ListQueries : GetPeople(a.favorite_anime, a.has_email, a.has_favorite_anime)

NextList == Query \/ Respond

SpecList == InitList /\ [][NextList]_vars

-----------------------------------------------------------------------------
(* Two create_person requests served by two threads of the server's pool. *)
(* A thread can be preempted between the call of get_next_id() and the     *)
(* append of the record built with its result.                             *)

Threads == {1, 2}

Idle == [pc |-> "idle", args |-> NoArgs, status |-> 200, body |-> <<>>]

InitConc ==
    /\ people = SeedPeople
    /\ free_ids = {}
    /\ last = NoResponse
    /\ nsteps = 0
    /\ threads = [t \in Threads |-> Idle]

\* the request reaches create_person
Receive(t, a) ==
    /\ threads[t].pc = "idle"
    /\ nsteps < MaxSteps
    /\ threads' = [threads EXCEPT ![t] = [Idle EXCEPT !.pc = "construct", !.args = a]]
    /\ nsteps' = nsteps + 1
    /\ UNCHANGED <<people, free_ids, last>>

\* new_person = Person(id=get_next_id(), ...)
Construct(t) ==
    /\ threads[t].pc = "construct"
    /\ LET a == threads[t].args
           new_person == Person(get_next_id(people, free_ids), a.firstname, a.lastname,
                                a.email, a.favorite_anime)
       IN  threads' = [threads EXCEPT ![t] =
                         IF new_person.ok
                         THEN [pc |-> "append", args |-> a, status |-> 201,
                               body |-> <<new_person.value>>]
                         ELSE [pc |-> "done", args |-> a, status |-> new_person.status,
                               body |-> <<>>]]
    /\ UNCHANGED <<people, free_ids, last, nsteps>>

\* _people.append(new_person); return new_person
AppendPerson(t) ==
    /\ threads[t].pc = "append"
    /\ people' = Append(people, threads[t].body[1])
    /\ threads' = [threads EXCEPT ![t].pc = "done"]
    /\ UNCHANGED <<free_ids, last, nsteps>>

\* the response leaves the server
Finish(t) ==
    /\ threads[t].pc = "done"
    /\ threads' = [threads EXCEPT ![t] = Idle]
    /\ UNCHANGED <<people, free_ids, last, nsteps>>

NextConc ==
    \E t \in Threads :
        \/ \E a \in CreateInputs : Receive(t, a)
        \/ Construct(t)
        \/ AppendPerson(t)
        \/ Finish(t)

SpecConc == InitConc /\ [][NextConc]_vars
-----------------------------------------------------------------------------
(* Properties *)

Ids(ps) == [i \in 1..Len(ps) |-> ps[i].id]

LiveIds == {people[i].id : i \in 1..Len(people)}

Fields == {"firstname", "lastname", "email", "favorite_anime"}

\* C1: no two live records of the collection have the same id.
C1_UniqueLiveIds ==
    \A i, j \in 1..Len(people) : i # j => people[i].id # people[j].id

\* C2: from the seed store, delete(1) leaves the free set {1}; the create
\* that follows returns id 1; the create after that one returns id 3.
C2_SeedScenario ==
    [][ /\ (/\ Ids(people) = <<0, 1, 2>> /\ free_ids = {}
            /\ last'.op = "delete" /\ last'.status = 200 /\ last'.person_id = 1)
           => free_ids' = {1}
        /\ (/\ Ids(people) = <<0, 2>> /\ free_ids = {1}
            /\ last'.op = "create" /\ last'.status = 201)
           => last'.body[1].id = 1
        /\ (/\ Ids(people) = <<0, 2, 1>> /\ free_ids = {1}
            /\ last'.op = "create" /\ last'.status = 201)
           => last'.body[1].id = 3 ]_vars

\* C3: the free-id set is disjoint from the ids of the live records (a
\* create that took its id from the free set removed it from there).
C3_FreeDisjointFromLive == free_ids \cap LiveIds = {}

\* C4: in the state a successful delete(id) leaves, get(id) is not-found and
\* no record of the unfiltered list has that id.
C4_DeletedIsGone ==
    (last.op = "delete" /\ last.status = 200) =>
        /\ get_person(people, last.person_id).status = 404
        /\ LET listed == get_people(people, None, "None", "None")
           IN  \A i \in 1..Len(listed) : listed[i].id # last.person_id

\* C5: an update that ends with a validation error leaves the collection
\* and the free-id set as they were before the call.
C5_FailedUpdateChangesNothing ==
    [][ (last'.op = "update" /\ last'.status \in {422, 500})
        => (people' = people /\ free_ids' = free_ids) ]_vars

\* C6: two create requests served concurrently never receive the same id.
C6_ConcurrentCreatesDistinctIds ==
    \A t, u \in Threads :
        (/\ t # u
         /\ threads[t].pc = "done" /\ threads[t].status = 201
         /\ threads[u].pc = "done" /\ threads[u].status = 201)
        => threads[t].body[1].id # threads[u].body[1].id

\* C7: get_next_id returns the least free id when there is one; otherwise one
\* more than the greatest id of a live record when there is a record;
\* otherwise 0.
C7_AllocateId ==
    last.op = "get_next_id" =>
        LET r == last.person_id
        IN  IF free_ids # {}
            THEN r \in free_ids /\ \A f \in free_ids : r <= f
            ELSE IF Len(people) > 0
            THEN (r - 1) \in LiveIds /\ \A i \in LiveIds : i < r
            ELSE r = 0

C7_Witness ==
    /\ last.op = "get_next_id"
    /\ free_ids = {1, 3}
    /\ Ids(people) = <<0, 2>>
    /\ last.person_id = 1

\* C8: a successful delete(k) puts k in the free-id set, nothing but a delete
\* changes that set, and a create served while k is the least free id gives
\* the new record the id k: after k is deleted with no smaller id free, the
\* next create assigns k.
C8_DeletedIdReused ==
    [][ /\ (last'.op = "delete" /\ last'.status = 200)
           => last'.person_id \in free_ids'
        /\ last'.op # "delete" => free_ids' = free_ids
        /\ \A k \in free_ids :
              (/\ \A f \in free_ids : k <= f
               /\ last'.op = "create" /\ last'.status = 201)
              => (last'.body[1].id = k /\ people'[Len(people')].id = k) ]_vars

C8_Witness ==
    /\ last.op = "create" /\ last.status = 201
    /\ free_ids = {2}
    /\ last.body[1].id = 2
    /\ Ids(people) = <<0, 1, 2>>

\* C9: a create served when every record has been deleted gives the new
\* record the id 0.
C9_EmptyStoreCreatesZero ==
    [][ (Len(people) = 0 /\ last'.op = "create" /\ last'.status = 201)
        => (last'.body[1].id = 0 /\ Ids(people') = <<0>>) ]_vars

C9_Witness ==
    /\ last.op = "create" /\ last.status = 201
    /\ free_ids = {0, 1, 2}
    /\ Ids(people) = <<0>>
    /\ last.body[1].id = 0

\* C10: a successful update leaves unchanged every field of the record it
\* targets that was not supplied or was supplied as the empty string.
C10_UnsuppliedFieldsKept ==
    [][ (last'.op = "update" /\ last'.status = 200)
        => LET k == find(people, last'.person_id)
           IN  \A f \in Fields :
                 ~Truthy(last'.args[f]) => people'[k][f] = people[k][f] ]_vars

C10_Witness ==
    /\ last.op = "update" /\ last.status = 200 /\ last.person_id = 0
    /\ last.args = Args(<<>>, None, <<>>, <<"N", "a">>)
    /\ people[1] = [SeedPeople[1] EXCEPT !.favorite_anime = <<"N", "a">>]
\* a name the spec rejects: empty once the surrounding blanks are cut, or
\* holding a character that is no letter
RejectedName(name) ==
    LET inner == {i \in 1..Len(name) :
                    /\ \E j \in 1..i : name[j] # " "
                    /\ \E j \in i..Len(name) : name[j] # " "}
    IN  inner = {} \/ \E i \in inner : name[i] \notin Letters

\* C11: a create whose firstname or lastname is empty after trimming or holds
\* a non-alphabetic character ends with a validation error and leaves the
\* collection and the free-id set as they were.
C11_InvalidNameCreateRejected ==
    [][ (/\ last'.op = "create"
         /\ RejectedName(last'.args.firstname) \/ RejectedName(last'.args.lastname))
        => (last'.status = 422 /\ people' = people /\ free_ids' = free_ids) ]_vars

C11_Witness ==
    /\ last.op = "create" /\ last.status = 422
    /\ last.args.firstname = <<"J", "0">>
    /\ people = SeedPeople
    /\ free_ids = {}

\* C12: get, update and delete with an id no live record has end with
\* not-found and leave the collection and the free-id set as they were.
C12_UnknownIdNotFound ==
    [][ (last'.op \in {"get", "update", "delete"} /\ last'.person_id \notin LiveIds)
        => (last'.status = 404 /\ people' = people /\ free_ids' = free_ids) ]_vars

C12_Witness ==
    /\ last.op = "delete" /\ last.status = 404 /\ last.person_id = 1
    /\ Ids(people) = <<0, 2>>
    /\ free_ids = {1}
\* the records of ps at the positions in idx, in the order ps holds them
Kept(ps, idx) ==
    [j \in 1..Cardinality(idx) |->
        ps[CHOOSE i \in idx : Cardinality({k \in idx : k <= i}) = j]]

HasEmail(p) == p.email # None /\ p.email # <<>>

HasAnime(p) == p.favorite_anime # None /\ p.favorite_anime # <<>>

\* p's favorite_anime is present and equals s when letter case is ignored
AnimeIs(p, s) ==
    /\ p.favorite_anime # None
    /\ Len(p.favorite_anime) = Len(s)
    /\ \A i \in 1..Len(s) : LowerChar(p.favorite_anime[i]) = LowerChar(s[i])

\* C13: list with has_email=true returns exactly the records whose email is
\* neither null nor empty, list with has_email=false exactly the others, so
\* the two answers partition the collection.
C13_HasEmailPartitions ==
    (/\ last.op = "list"
     /\ last.args.favorite_anime = None
     /\ last.args.has_favorite_anime = "None")
    => /\ last.args.has_email = "True"
          => last.body = Kept(people, {i \in 1..Len(people) : HasEmail(people[i])})
       /\ last.args.has_email = "False"
          => last.body = Kept(people, {i \in 1..Len(people) : ~HasEmail(people[i])})

C13_Witness ==
    /\ last.op = "list"
    /\ last.args = [favorite_anime |-> None, has_email |-> "False",
                    has_favorite_anime |-> "None"]
    /\ Len(people) = 3
    /\ HasEmail(people[2]) /\ ~HasEmail(people[1]) /\ ~HasEmail(people[3])
    /\ last.body = <<people[1], people[3]>>

\* what a record has to satisfy under the filters a; anime tells whether the
\* favorite_anime filter is in force
Satisfies(p, a, anime) ==
    /\ anime => AnimeIs(p, a.favorite_anime)
    /\ a.has_email = "True" => HasEmail(p)
    /\ a.has_email = "False" => ~HasEmail(p)
    /\ a.has_favorite_anime = "True" => HasAnime(p)
    /\ a.has_favorite_anime = "False" => ~HasAnime(p)

\* C14 as stated: list returns, in collection order, exactly the records that
\* satisfy every filter the request carries, a filter being absent only when
\* it is not given.
C14_AllSuppliedFilters ==
    last.op = "list"
    => last.body = Kept(people, {i \in 1..Len(people) :
                           Satisfies(people[i], last.args,
                                     last.args.favorite_anime # None)})

\* C14: list returns, in collection order, exactly the records that satisfy
\* every filter in force, where a favorite_anime filter that is absent or the
\* empty string, like an absent has_email or has_favorite_anime, imposes no
\* constraint; no match gives the empty sequence with status 200.
C14_AllFiltersInForce ==
    last.op = "list"
    => /\ last.status = 200
       /\ last.body = Kept(people, {i \in 1..Len(people) :
                              Satisfies(people[i], last.args,
                                        last.args.favorite_anime \notin {None, <<>>})})

C14_Witness ==
    /\ last.op = "list"
    /\ last.args = [favorite_anime |-> <<"N", "a">>, has_email |-> "True",
                    has_favorite_anime |-> "True"]
    /\ Len(people) = 3
    /\ people[1].favorite_anime = <<"n", "a">> /\ ~HasEmail(people[1])
    /\ people[2].favorite_anime = <<"o">> /\ HasEmail(people[2])
    /\ people[3].favorite_anime = <<"n", "a">> /\ HasEmail(people[3])
    /\ last.body = <<people[3]>>

\* C17 as stated: list with favorite_anime = s alone returns exactly the
\* records whose favorite_anime is present and equals s ignoring letter case,
\* for every s.
C17_AnimeFilterAnyString ==
    (/\ last.op = "list"
     /\ last.args.favorite_anime # None
     /\ last.args.has_email = "None"
     /\ last.args.has_favorite_anime = "None")
    => last.body = Kept(people, {i \in 1..Len(people) :
                           AnimeIs(people[i], last.args.favorite_anime)})

\* C17: list with a non-empty favorite_anime = s alone returns exactly the
\* records whose favorite_anime is present and equals s ignoring letter case;
\* records without a favorite_anime are left out.
C17_AnimeFilterIgnoresCase ==
    (/\ last.op = "list"
     /\ last.args.favorite_anime \notin {None, <<>>}
     /\ last.args.has_email = "None"
     /\ last.args.has_favorite_anime = "None")
    => /\ last.body = Kept(people, {i \in 1..Len(people) :
                              AnimeIs(people[i], last.args.favorite_anime)})
       /\ \A j \in 1..Len(last.body) : last.body[j].favorite_anime # None

C17_Witness ==
    /\ last.op = "list"
    /\ last.args = [favorite_anime |-> <<"N", "a">>, has_email |-> "None",
                    has_favorite_anime |-> "None"]
    /\ Len(people) = 3
    /\ people[1].favorite_anime = <<"n", "a">>
    /\ people[2].favorite_anime = None
    /\ people[3].favorite_anime = <<"o">>
    /\ last.body = <<people[1]>>
\* ps without the element at position k
RemoveAt(ps, k) == SubSeq(ps, 1, k - 1) \o SubSeq(ps, k + 1, Len(ps))

\* C15: a successful delete(id) takes exactly one record out of the
\* collection, one whose id is id, puts id in the free-id set, returns that
\* record, and leaves the other records and their order as they were.
C15_DeleteRemovesOne ==
    [][ (last'.op = "delete" /\ last'.status = 200)
        => /\ \E k \in 1..Len(people) :
                 /\ people[k].id = last'.person_id
                 /\ people' = RemoveAt(people, k)
                 /\ last'.body = <<people[k]>>
           /\ free_ids' = free_ids \cup {last'.person_id} ]_vars

C15_Witness ==
    /\ last.op = "delete" /\ last.status = 200 /\ last.person_id = 1
    /\ people = <<SeedPeople[1], SeedPeople[3]>>
    /\ free_ids = {1}
    /\ last.body = <<SeedPeople[2]>>

\* C16: a record keeps its id as long as it is in the collection, and an
\* update changes at most one record, one with the id it names, without
\* changing that record's id, any other record or the free-id set.
C16_IdsNeverChange ==
    [][ /\ ~(last'.op = "delete" /\ last'.status = 200)
           => \A i \in 1..Len(people) :
                 i <= Len(people') /\ people'[i].id = people[i].id
        /\ (last'.op = "delete" /\ last'.status = 200)
           => \E k \in 1..Len(people) : Ids(people') = RemoveAt(Ids(people), k)
        /\ last'.op = "update"
           => /\ Len(people') = Len(people)
              /\ free_ids' = free_ids
              /\ LET changed == {i \in 1..Len(people) : people'[i] # people[i]}
                 IN  /\ Cardinality(changed) <= 1
                     /\ \A i \in changed : people[i].id = last'.person_id ]_vars

C16_Witness ==
    /\ last.op = "update" /\ last.status = 200 /\ last.person_id = 1
    /\ Len(people) = 3
    /\ people[2].id = 1 /\ people[2].firstname # SeedPeople[2].firstname
    /\ people[1] = SeedPeople[1] /\ people[3] = SeedPeople[3]
    /\ free_ids = {}

\* C18: the collection keeps insertion order: a successful create puts the
\* new record last and leaves the records before it in place, a successful
\* delete takes one record out without moving the others past each other,
\* and every other step leaves each record at its position.
C18_InsertionOrderKept ==
    [][ /\ (last'.op = "create" /\ last'.status = 201)
           => (Len(last'.body) = 1 /\ people' = Append(people, last'.body[1]))
        /\ (last'.op = "delete" /\ last'.status = 200)
           => \E k \in 1..Len(people) : people' = RemoveAt(people, k)
        /\ ~(last'.op = "create" /\ last'.status = 201)
           /\ ~(last'.op = "delete" /\ last'.status = 200)
           => /\ Len(people') = Len(people)
              /\ \A i \in 1..Len(people) :
                    \/ people'[i] = people[i]
                    \/ /\ last'.op = "update"
                       /\ people'[i].id = people[i].id ]_vars

C18_Witness ==
    /\ last.op = "create" /\ last.status = 201
    /\ people = <<SeedPeople[1], SeedPeople[3], last.body[1]>>
    /\ Ids(people) = <<0, 2, 1>>

\* C19: the number of records grows by one on a successful create, shrinks
\* by one on a successful delete, and stays the same on get, list, update and
\* every failing request.
C19_CountChangesByOne ==
    [][ Len(people') = Len(people)
                       + (IF last'.op = "create" /\ last'.status = 201 THEN 1
                          ELSE IF last'.op = "delete" /\ last'.status = 200 THEN -1
                          ELSE 0) ]_vars

C19_Witness ==
    /\ last.op = "delete" /\ last.status = 200 /\ last.person_id = 2
    /\ Ids(people) = <<0, 1, 3>>
    /\ free_ids = {2}
====
